---- MODULE Spec2Model ----
(***************************************************************************)
(* Guardian recovery protocol: the recovery_registry session code          *)
(* (contracts/recovery_registry/src/main.rs).                              *)
(*                                                                         *)
(* The state is the named-key store the code reads and writes through      *)
(* read/write/remove_key.  Every family of keys "grp_<field>_<index>" is   *)
(* one variable: a function whose domain is the set of indexes whose key   *)
(* is present.  One action models one dispatch of call(): the whole        *)
(* handler, or its revert, which discards every write of the call.         *)
(* Every call runs against the same named keys; the caller is whatever     *)
(* runtime::get_caller returns for that call.                              *)
(*                                                                         *)
(* The recovery_key_rotation session code                                  *)
(* (contracts/recovery_key_rotation/src/main.rs) acts on the associated    *)
(* keys and the action thresholds of the account it runs in; one action    *)
(* models one call of it.                                                  *)
(***************************************************************************)
EXTENDS Integers, Sequences, FiniteSets, TLC

\* ------------------------------------------------------------------ bounds
NumAccounts == 3        \* account hashes 1..NumAccounts may call
NumOwners == 1          \* account hashes 1..NumOwners are named as "account"
MaxGuardians == 2       \* longest guardians list passed to action 1
MaxSessions == 3        \* recovery ids issued in a run
NumKeys == 1            \* distinct new_public_key values
ShortSessions == 2      \* recovery ids issued in a run of SpecShort
WideSessions == 1       \* recovery ids issued in a run of SpecWide
OrderGuardians == 2     \* waiting guardians whose approvals are tried in both orders
TwoOwners == 2          \* accounts named as "account" in a run of SpecTwo
TwoKeys == 2            \* distinct new_public_key values in a run of SpecTwo
TwoSessions == 2        \* recovery ids issued in a run of SpecTwo
RotHashes == 2          \* account hashes named by the keys of a rotation call
RotWeights == 2         \* largest weight and threshold of a rotation call

\* u8::MAX, the largest value of approval_count and threshold (main.rs:188)
U8Max == 255

Accounts == 1..NumAccounts
Owners == 1..NumOwners
PublicKeys == 1..NumKeys
Ids == 1..MaxSessions

\* Sequences over S of length lo..hi
SeqsUpTo(S, lo, hi) == UNION {[1..n -> S] : n \in lo..hi}

\* The guardians arguments tried: every list, duplicates included
GuardianLists == SeqsUpTo(Accounts, 1, MaxGuardians)
\* The threshold arguments tried: 0, every size, and one past the largest
Thresholds == 0..(MaxGuardians + 1)

\* The list of U8Max + 1 distinct guardians: 1, 2, ..., 256
WideList == [i \in 1..(U8Max + 1) |-> i]

VARIABLES
    grp_init,               \* grp_init_<account>           -> bool
    grp_guardians,          \* grp_guardians_<account>      -> Vec<AccountHash>
    grp_threshold,          \* grp_threshold_<account>      -> u8
    grp_active,             \* grp_active_<account>         -> U256
    grp_counter,            \* grp_counter                  -> U256 (0: absent)
    grp_rec_account,        \* grp_rec_<id>_account         -> AccountHash
    grp_rec_new_key,        \* grp_rec_<id>_new_key         -> PublicKey
    grp_rec_approval_count, \* grp_rec_<id>_approval_count  -> u8
    grp_rec_approved,       \* grp_rec_<id>_approved        -> bool
    grp_rec_approver,       \* grp_rec_<id>_approver_<caller> -> bool, as pairs
    last,                   \* the most recent call and how it ended
    finalized,              \* ids that a finalize call has succeeded on
    voted,                  \* <<id, caller>> of every approve call that succeeded
    associated_keys,        \* the account's associated keys: AccountHash -> Weight
    action_thresholds,      \* the account's deployment and key_management thresholds
    rotation                \* the most recent key-rotation call and how it ended

store == <<grp_init, grp_guardians, grp_threshold, grp_active, grp_counter,
           grp_rec_account, grp_rec_new_key, grp_rec_approval_count,
           grp_rec_approved, grp_rec_approver>>
vars == <<grp_init, grp_guardians, grp_threshold, grp_active, grp_counter,
          grp_rec_account, grp_rec_new_key, grp_rec_approval_count,
          grp_rec_approved, grp_rec_approver, last, finalized, voted,
          associated_keys, action_thresholds, rotation>>
\* What the key-rotation call reads and writes, and its outcome
account_vars == <<associated_keys, action_thresholds, rotation>>

\* ------------------------------------------------------- storage helpers
\* read: Some(value) when the key is present
Has(f, k) == k \in DOMAIN f
\* read(..).unwrap_or(d)
ReadOr(f, k, d) == IF k \in DOMAIN f THEN f[k] ELSE d
\* write: put_key binds k to a fresh uref holding v
Put(f, k, v) == [x \in (DOMAIN f) \cup {k} |-> IF x = k THEN v ELSE f[x]]
\* runtime::remove_key: no effect when the key is absent
Remove(f, k) == [x \in (DOMAIN f) \ {k} |-> f[x]]

Range(s) == {s[i] : i \in DOMAIN s}

\* The call that ended: its action, its error ("Ok" when it returned), the
\* account argument (0: none) and the recovery id given or issued (0: none).
Outcome(op, err, account, id) == [op |-> op, err |-> err, account |-> account, id |-> id]

\* runtime::revert: nothing the call wrote is kept
Revert(op, err, account, id) ==
    /\ last' = Outcome(op, err, account, id)
    /\ UNCHANGED <<store, finalized, voted>>

\* No registry call has been made
EmptyStore ==
    /\ grp_init = <<>>
    /\ grp_guardians = <<>>
    /\ grp_threshold = <<>>
    /\ grp_active = <<>>
    /\ grp_counter = 0
    /\ grp_rec_account = <<>>
    /\ grp_rec_new_key = <<>>
    /\ grp_rec_approval_count = <<>>
    /\ grp_rec_approved = <<>>
    /\ grp_rec_approver = {}
    /\ last = Outcome("none", "Ok", 0, 0)
    /\ finalized = {}
    /\ voted = {}

\* The key-rotation call that ended: its error ("Ok" when it returned) and
\* its five runtime arguments
RotationOutcome(err, new_key, new_key_weight, old_key, deployment_threshold, key_management_threshold) ==
    [err |-> err, new_key |-> new_key, new_key_weight |-> new_key_weight,
     old_key |-> old_key, deployment_threshold |-> deployment_threshold,
     key_management_threshold |-> key_management_threshold]

\* A Key argument: Key::Account(hash), or a key of another variant
AccountKey(hash) == [tag |-> "Account", hash |-> hash]
NoKey == [tag |-> "none", hash |-> 0]

\* A new account: its own hash is the one associated key, with weight 1, and
\* both thresholds are 1.  No key-rotation call has been made.
Init ==
    /\ EmptyStore
    /\ associated_keys = [h \in {1} |-> 1]
    /\ action_thresholds = [deployment |-> 1, key_management |-> 1]
    /\ rotation = RotationOutcome("none", NoKey, 0, NoKey, 0, 0)

\* ---------------------------------------------- action 1: initialize_guardians
\* guardians.len() < 2
TooFewGuardians(guardians) == Len(guardians) < 2

\* As BadThreshold, without the test for zero
BadThreshold_NoZero(guardians, threshold) == threshold > Len(guardians)

\* threshold == 0 || threshold as usize > guardians.len()
BadThreshold(guardians, threshold) == threshold = 0 \/ threshold > Len(guardians)

\* As IsInitialized, reading the active-recovery key instead of the init key
IsInitialized_ActiveKey(account) == Has(grp_active, account)

\* read::<bool>(&init_key).unwrap_or(false)
IsInitialized(account) == ReadOr(grp_init, account, FALSE)

\* As action_initialize_guardians, without the already-initialized check
action_initialize_guardians_Rewrite(caller, account, guardians, threshold) ==
    IF caller # account
    THEN Revert("initialize_guardians", "NotAccountOwner", account, 0)
    ELSE IF TooFewGuardians(guardians)
    THEN Revert("initialize_guardians", "InvalidGuardianSet", account, 0)
    ELSE IF BadThreshold(guardians, threshold)
    THEN Revert("initialize_guardians", "InvalidThreshold", account, 0)
    ELSE /\ grp_guardians' = Put(grp_guardians, account, guardians)
         /\ grp_threshold' = Put(grp_threshold, account, threshold)
         /\ grp_init' = Put(grp_init, account, TRUE)
         /\ last' = Outcome("initialize_guardians", "Ok", account, 0)
         /\ UNCHANGED <<grp_active, grp_counter, grp_rec_account, grp_rec_new_key,
                        grp_rec_approval_count, grp_rec_approved, grp_rec_approver,
                        finalized, voted>>

action_initialize_guardians(caller, account, guardians, threshold) ==
    IF caller # account
    THEN Revert("initialize_guardians", "NotAccountOwner", account, 0)
    ELSE IF TooFewGuardians(guardians)
    THEN Revert("initialize_guardians", "InvalidGuardianSet", account, 0)
    ELSE IF BadThreshold(guardians, threshold)
    THEN Revert("initialize_guardians", "InvalidThreshold", account, 0)
    ELSE IF IsInitialized(account)
    THEN Revert("initialize_guardians", "AlreadyInitialized", account, 0)
    ELSE /\ grp_guardians' = Put(grp_guardians, account, guardians)
         /\ grp_threshold' = Put(grp_threshold, account, threshold)
         /\ grp_init' = Put(grp_init, account, TRUE)
         /\ last' = Outcome("initialize_guardians", "Ok", account, 0)
         /\ UNCHANGED <<grp_active, grp_counter, grp_rec_account, grp_rec_new_key,
                        grp_rec_approval_count, grp_rec_approved, grp_rec_approver,
                        finalized, voted>>

\* ------------------------------------------------- action 2: initiate_recovery
\* As NextId, with the default 1 and no increment
NextId_NoIncrement == IF grp_counter = 0 THEN 1 ELSE grp_counter

\* read(counter_key).unwrap_or(U256::zero()) + U256::one()
NextId == grp_counter + 1

\* As CounterAfter, with the counter left as it was read
CounterAfter_Stale(id) == grp_counter

\* write(counter_key, id)
CounterAfter(id) == id

\* As action_initiate_recovery, with the key of the new_key record formatted
\* from the account instead of the id
action_initiate_recovery_KeyByAccount(account, new_key) ==
    IF ~IsInitialized(account)
    THEN Revert("initiate_recovery", "NotInitialized", account, 0)
    ELSE IF Has(grp_active, account)
    THEN Revert("initiate_recovery", "RecoveryExists", account, 0)
    ELSE LET id == NextId IN
         /\ grp_counter' = CounterAfter(id)
         /\ grp_rec_account' = Put(grp_rec_account, id, account)
         /\ grp_rec_new_key' = Put(grp_rec_new_key, account, new_key)
         /\ grp_rec_approval_count' = Put(grp_rec_approval_count, id, 0)
         /\ grp_rec_approved' = Put(grp_rec_approved, id, FALSE)
         /\ grp_active' = Put(grp_active, account, id)
         /\ last' = Outcome("initiate_recovery", "Ok", account, id)
         /\ UNCHANGED <<grp_init, grp_guardians, grp_threshold, grp_rec_approver,
                        finalized, voted>>

action_initiate_recovery(account, new_key) ==
    IF ~IsInitialized(account)
    THEN Revert("initiate_recovery", "NotInitialized", account, 0)
    ELSE IF Has(grp_active, account)
    THEN Revert("initiate_recovery", "RecoveryExists", account, 0)
    ELSE LET id == NextId IN
         /\ grp_counter' = CounterAfter(id)
         /\ grp_rec_account' = Put(grp_rec_account, id, account)
         /\ grp_rec_new_key' = Put(grp_rec_new_key, id, new_key)
         /\ grp_rec_approval_count' = Put(grp_rec_approval_count, id, 0)
         /\ grp_rec_approved' = Put(grp_rec_approved, id, FALSE)
         /\ grp_active' = Put(grp_active, account, id)
         /\ last' = Outcome("initiate_recovery", "Ok", account, id)
         /\ UNCHANGED <<grp_init, grp_guardians, grp_threshold, grp_rec_approver,
                        finalized, voted>>

\* -------------------------------------------------- action 3: approve_recovery
\* As IsGuardian, letting every caller through
IsGuardian_Anyone(guardians, caller) == TRUE

\* guardians.contains(&caller)
IsGuardian(guardians, caller) == caller \in Range(guardians)

\* As HasApproved, never finding the marker
HasApproved_Never(id, caller) == FALSE

\* read::<bool>(&approver_key).unwrap_or(false)
HasApproved(id, caller) == <<id, caller>> \in grp_rec_approver

\* As ThresholdMet, one approval early
ThresholdMet_OneEarly(new_count, threshold) == new_count + 1 >= threshold

\* new_count >= threshold
ThresholdMet(new_count, threshold) == new_count >= threshold

\* current_count + 1 on a u8: the sum when it fits; past u8::MAX the build
\* decides, wrapping to 0 (overflow checks off) or panicking (checks on)
U8Increment(current_count) ==
    IF current_count + 1 <= U8Max
    THEN {[panic |-> FALSE, value |-> current_count + 1]}
    ELSE {[panic |-> FALSE, value |-> (current_count + 1) % (U8Max + 1)],
          [panic |-> TRUE, value |-> 0]}

\* As action_approve_recovery, with the already-approved test made after the
\* count is written and reported without reverting
action_approve_recovery_LateCheck(caller, id) ==
    IF ~Has(grp_rec_account, id)
    THEN Revert("approve_recovery", "RecoveryNotFound", 0, id)
    ELSE IF ~IsGuardian(grp_guardians[grp_rec_account[id]], caller)
    THEN Revert("approve_recovery", "NotGuardian", 0, id)
    ELSE /\ grp_rec_approval_count' =
               Put(grp_rec_approval_count, id,
                   (ReadOr(grp_rec_approval_count, id, 0) + 1) % (U8Max + 1))
         /\ grp_rec_approver' = grp_rec_approver \cup {<<id, caller>>}
         /\ voted' = voted \cup {<<id, caller>>}
         /\ last' = Outcome("approve_recovery",
                            IF HasApproved(id, caller) THEN "AlreadyApproved" ELSE "Ok",
                            0, id)
         /\ UNCHANGED <<grp_init, grp_guardians, grp_threshold, grp_active,
                        grp_counter, grp_rec_account, grp_rec_new_key,
                        grp_rec_approved, finalized>>

action_approve_recovery(caller, id) ==
    IF ~Has(grp_rec_account, id)
    THEN Revert("approve_recovery", "RecoveryNotFound", 0, id)
    ELSE LET account == grp_rec_account[id] IN
    IF ~Has(grp_guardians, account)
    THEN Revert("approve_recovery", "NotGuardian", 0, id)
    ELSE IF ~IsGuardian(grp_guardians[account], caller)
    THEN Revert("approve_recovery", "NotGuardian", 0, id)
    ELSE IF HasApproved(id, caller)
    THEN Revert("approve_recovery", "AlreadyApproved", 0, id)
    ELSE \E sum \in U8Increment(ReadOr(grp_rec_approval_count, id, 0)) :
         LET new_count == sum.value IN
         IF sum.panic
         THEN Revert("approve_recovery", "Panic", 0, id)
         ELSE /\ grp_rec_approver' = grp_rec_approver \cup {<<id, caller>>}
              /\ grp_rec_approval_count' = Put(grp_rec_approval_count, id, new_count)
              /\ grp_rec_approved' =
                    IF ThresholdMet(new_count, ReadOr(grp_threshold, account, 2))
                    THEN Put(grp_rec_approved, id, TRUE)
                    ELSE grp_rec_approved
              /\ last' = Outcome("approve_recovery", "Ok", 0, id)
              /\ voted' = voted \cup {<<id, caller>>}
              /\ UNCHANGED <<grp_init, grp_guardians, grp_threshold, grp_active,
                             grp_counter, grp_rec_account, grp_rec_new_key, finalized>>

\* action_approve_recovery as a function: the approval fields st (approver,
\* approval_count, approved) after approve of id by caller, one for every
\* outcome of the u8 sum; a reverted call leaves st.  The keys approve only
\* reads (the record's account, the guardians list, the threshold) are the
\* stored ones.
approve_recovery_on(st, caller, id) ==
    IF ~Has(grp_rec_account, id)
    THEN {st}
    ELSE LET account == grp_rec_account[id] IN
    IF ~Has(grp_guardians, account)
    THEN {st}
    ELSE IF ~IsGuardian(grp_guardians[account], caller)
    THEN {st}
    ELSE IF <<id, caller>> \in st.approver
    THEN {st}
    ELSE {IF sum.panic
          THEN st
          ELSE [approver |-> st.approver \cup {<<id, caller>>},
                approval_count |-> Put(st.approval_count, id, sum.value),
                approved |->
                    IF ThresholdMet(sum.value, ReadOr(grp_threshold, account, 2))
                    THEN Put(st.approved, id, TRUE)
                    ELSE st.approved] :
          sum \in U8Increment(ReadOr(st.approval_count, id, 0))}

\* ------------------------------------------------- action 5: finalize_recovery
\* As action_finalize_recovery, with one active key shared by every account
action_finalize_recovery_ClearsAll(id) ==
    IF ~Has(grp_rec_account, id)
    THEN Revert("finalize_recovery", "RecoveryNotFound", 0, id)
    ELSE IF ~ReadOr(grp_rec_approved, id, FALSE)
    THEN Revert("finalize_recovery", "ThresholdNotMet", 0, id)
    ELSE /\ grp_active' = <<>>
         /\ last' = Outcome("finalize_recovery", "Ok", 0, id)
         /\ finalized' = finalized \cup {id}
         /\ UNCHANGED <<grp_init, grp_guardians, grp_threshold, grp_counter,
                        grp_rec_account, grp_rec_new_key, grp_rec_approval_count,
                        grp_rec_approved, grp_rec_approver, voted>>

\* As action_finalize_recovery, without the removal of the active key
action_finalize_recovery_KeepsMarker(id) ==
    IF ~Has(grp_rec_account, id)
    THEN Revert("finalize_recovery", "RecoveryNotFound", 0, id)
    ELSE IF ~ReadOr(grp_rec_approved, id, FALSE)
    THEN Revert("finalize_recovery", "ThresholdNotMet", 0, id)
    ELSE /\ last' = Outcome("finalize_recovery", "Ok", 0, id)
         /\ finalized' = finalized \cup {id}
         /\ UNCHANGED <<store, voted>>

action_finalize_recovery(id) ==
    IF ~Has(grp_rec_account, id)
    THEN Revert("finalize_recovery", "RecoveryNotFound", 0, id)
    ELSE IF ~ReadOr(grp_rec_approved, id, FALSE)
    THEN Revert("finalize_recovery", "ThresholdNotMet", 0, id)
    ELSE /\ grp_active' = Remove(grp_active, grp_rec_account[id])
         /\ last' = Outcome("finalize_recovery", "Ok", 0, id)
         /\ finalized' = finalized \cup {id}
         /\ UNCHANGED <<grp_init, grp_guardians, grp_threshold, grp_counter,
                        grp_rec_account, grp_rec_new_key, grp_rec_approval_count,
                        grp_rec_approved, grp_rec_approver, voted>>

\* ------------------------------------------- recovery_key_rotation: call()
\* The account the session code runs in, as the host calls read and write it
Account == [associated_keys |-> associated_keys, action_thresholds |-> action_thresholds]

\* The sum of the weights of the keys
RECURSIVE TotalWeight(_)
TotalWeight(keys) ==
    IF DOMAIN keys = {} THEN 0
    ELSE LET h == CHOOSE x \in DOMAIN keys : TRUE
         IN  keys[h] + TotalWeight(Remove(keys, h))

\* What a host call returns: Ok with the account it leaves, or Err with the
\* account untouched
HostOk(acct) == [ok |-> TRUE, account |-> acct]
HostErr(acct) == [ok |-> FALSE, account |-> acct]

\* account::add_associated_key: DuplicateKey when the hash is already a key;
\* otherwise the key is added, unless the host denies the call
\* (PermissionDenied: the signers of the deploy do not reach key_management)
add_associated_key(acct, hash, weight) ==
    IF Has(acct.associated_keys, hash) THEN {HostErr(acct)}
    ELSE {HostOk([acct EXCEPT !.associated_keys = Put(@, hash, weight)]), HostErr(acct)}

\* account::set_action_threshold: key_management may not go below deployment,
\* deployment may not go above key_management, neither above the total
\* weight of the keys; the host may also deny the call
set_action_threshold(acct, action_type, weight) ==
    IF weight > TotalWeight(acct.associated_keys) THEN {HostErr(acct)}
    ELSE IF action_type = "KeyManagement"
    THEN IF weight < acct.action_thresholds.deployment THEN {HostErr(acct)}
         ELSE {HostOk([acct EXCEPT !.action_thresholds.key_management = weight]),
               HostErr(acct)}
    ELSE IF weight > acct.action_thresholds.key_management THEN {HostErr(acct)}
         ELSE {HostOk([acct EXCEPT !.action_thresholds.deployment = weight]),
               HostErr(acct)}

\* The larger of the two thresholds
MaxThreshold(thresholds) ==
    IF thresholds.deployment > thresholds.key_management
    THEN thresholds.deployment ELSE thresholds.key_management

\* account::remove_associated_key: MissingKey when the hash is no key,
\* ThresholdViolation when the keys left would not reach both thresholds;
\* otherwise the key is removed, unless the host denies the call
remove_associated_key(acct, hash) ==
    IF ~Has(acct.associated_keys, hash) THEN {HostErr(acct)}
    ELSE IF TotalWeight(Remove(acct.associated_keys, hash))
                < MaxThreshold(acct.action_thresholds)
    THEN {HostErr(acct)}
    ELSE {HostOk([acct EXCEPT !.associated_keys = Remove(@, hash)]), HostErr(acct)}

\* call() of recovery_key_rotation.  A revert discards what the host calls
\* before it did to the account; the result of the removal is dropped.
key_rotation_call(new_key, new_key_weight, old_key, deployment_threshold, key_management_threshold) ==
    LET Ended(err) == RotationOutcome(err, new_key, new_key_weight, old_key,
                                      deployment_threshold, key_management_threshold)
        RevertWith(err) ==
            /\ rotation' = Ended(err)
            /\ UNCHANGED <<associated_keys, action_thresholds>>
    IN
    /\ IF new_key.tag # "Account" THEN RevertWith("InvalidNewKey")
       ELSE IF old_key.tag # "Account" THEN RevertWith("InvalidOldKey")
       ELSE \E added \in add_associated_key(Account, new_key.hash, new_key_weight) :
            IF ~added.ok THEN RevertWith("AddKeyFailed")
            ELSE \E managed \in set_action_threshold(added.account, "KeyManagement",
                                                     key_management_threshold) :
                 IF ~managed.ok THEN RevertWith("UpdateThresholdsFailed")
                 ELSE \E deployed \in set_action_threshold(managed.account, "Deployment",
                                                           deployment_threshold) :
                      IF ~deployed.ok THEN RevertWith("UpdateThresholdsFailed")
                      ELSE \E removed \in remove_associated_key(deployed.account,
                                                                old_key.hash) :
                           /\ associated_keys' = removed.account.associated_keys
                           /\ action_thresholds' = removed.account.action_thresholds
                           /\ rotation' = Ended("Ok")
    /\ UNCHANGED <<store, last, finalized, voted>>

\* ------------------------------------------------------------ specifications
\* call(): one dispatch, with its arguments and caller drawn from the bounds
Register ==
    \E caller \in Accounts, account \in Owners, guardians \in GuardianLists,
       threshold \in Thresholds :
        action_initialize_guardians(caller, account, guardians, threshold) /\ UNCHANGED account_vars

Initiate ==
    \E account \in Owners, new_key \in PublicKeys :
        /\ grp_counter < MaxSessions
        /\ action_initiate_recovery(account, new_key) /\ UNCHANGED account_vars

Approve ==
    \E caller \in Accounts, id \in Ids : action_approve_recovery(caller, id) /\ UNCHANGED account_vars

Finalize ==
    \E id \in Ids : action_finalize_recovery(id) /\ UNCHANGED account_vars

Next == Register \/ Initiate \/ Approve \/ Finalize

Spec == Init /\ [][Next]_vars

\* The same calls with fewer recoveries, for the properties that range over
\* every argument of a register call
InitiateShort ==
    \E account \in Owners, new_key \in PublicKeys :
        /\ grp_counter < ShortSessions
        /\ action_initiate_recovery(account, new_key) /\ UNCHANGED account_vars

NextShort == Register \/ InitiateShort \/ Approve \/ Finalize

SpecShort == Init /\ [][NextShort]_vars

\* The same calls on two accounts and with two keys, with fewer recoveries and
\* with the guardians lists <<1, 2>> and <<2, 3>> under thresholds 1 and 2
OwnersTwo == 1..TwoOwners
KeysTwo == 1..TwoKeys
IdsTwo == 1..TwoSessions
ListsTwo == {<<1, 2>>, <<2, 3>>}
ThresholdsTwo == {1, 2}

RegisterTwo ==
    \E caller \in Accounts, account \in OwnersTwo, guardians \in ListsTwo,
       threshold \in ThresholdsTwo :
        action_initialize_guardians(caller, account, guardians, threshold) /\ UNCHANGED account_vars

InitiateTwo ==
    \E account \in OwnersTwo, new_key \in KeysTwo :
        /\ grp_counter < TwoSessions
        /\ action_initiate_recovery(account, new_key) /\ UNCHANGED account_vars

ApproveTwo ==
    \E caller \in Accounts, id \in IdsTwo : action_approve_recovery(caller, id) /\ UNCHANGED account_vars

FinalizeTwo ==
    \E id \in IdsTwo : action_finalize_recovery(id) /\ UNCHANGED account_vars

NextTwo == RegisterTwo \/ InitiateTwo \/ ApproveTwo \/ FinalizeTwo

SpecTwo == Init /\ [][NextTwo]_vars

\* The same calls on one account guarded by WideList.  The guardians approve
\* in list order (approving commutes), and guardian 1 also tries again.
NextApprover(id) ==
    LET waiting == {i \in DOMAIN WideList : <<id, WideList[i]>> \notin grp_rec_approver}
    IN  IF waiting = {} THEN {} ELSE {WideList[CHOOSE i \in waiting : \A j \in waiting : i <= j]}

WideIds == 1..WideSessions

RegisterWide ==
    \E threshold \in {2, U8Max} : action_initialize_guardians(1, 1, WideList, threshold) /\ UNCHANGED account_vars

InitiateWide ==
    /\ grp_counter < WideSessions
    /\ action_initiate_recovery(1, 1) /\ UNCHANGED account_vars

ApproveWide ==
    \E id \in WideIds : \E caller \in NextApprover(id) \cup {1} :
        action_approve_recovery(caller, id) /\ UNCHANGED account_vars

FinalizeWide ==
    \E id \in WideIds : action_finalize_recovery(id) /\ UNCHANGED account_vars

NextWide == RegisterWide \/ InitiateWide \/ ApproveWide \/ FinalizeWide

SpecWide == Init /\ [][NextWide]_vars

\* The key-rotation call on any account the host can hold: some of the
\* hashes are its keys, and deployment <= key_management <= total weight
RotHashSet == 1..RotHashes
RotWeightSet == 1..RotWeights
\* The Key arguments tried: every account hash, and one key of another variant
KeyArgs == {AccountKey(h) : h \in RotHashSet} \cup {[tag |-> "Hash", hash |-> 1]}
KeyMaps == UNION {[S -> RotWeightSet] : S \in (SUBSET RotHashSet) \ {{}}}

InitRotate ==
    /\ EmptyStore
    /\ associated_keys \in KeyMaps
    /\ action_thresholds \in [deployment : RotWeightSet, key_management : RotWeightSet]
    /\ action_thresholds.deployment <= action_thresholds.key_management
    /\ action_thresholds.key_management <= TotalWeight(associated_keys)
    /\ rotation = RotationOutcome("none", NoKey, 0, NoKey, 0, 0)

Rotate ==
    \E new_key \in KeyArgs, new_key_weight \in RotWeightSet, old_key \in KeyArgs,
       deployment_threshold \in RotWeightSet, key_management_threshold \in RotWeightSet :
        key_rotation_call(new_key, new_key_weight, old_key, deployment_threshold,
                          key_management_threshold)

NextRotate == Rotate

SpecRotate == InitRotate /\ [][NextRotate]_vars

\* ------------------------------------------------------------------ claims
\* The callers holding an approver marker of recovery id
Approvers(id) == {p[2] : p \in {q \in grp_rec_approver : q[1] = id}}

\* The guardians of the account of recovery id whose approve call succeeded
GuardiansVoted(id) ==
    {g \in Range(grp_guardians[grp_rec_account[id]]) : <<id, g>> \in voted}

\* register has succeeded for the account
Registered(account) == account \in DOMAIN grp_init /\ grp_init[account]

\* C1: finalize of a recovery succeeds only when at least threshold distinct
\* guardians of the recovery's account have each approved that recovery.
C1_NoMinorityFinalize ==
    \A id \in finalized :
        Cardinality(GuardiansVoted(id)) >= grp_threshold[grp_rec_account[id]]

\* A recovery of a two-of-two account was finalized
C1_Witness ==
    \E id \in finalized :
        /\ grp_threshold[grp_rec_account[id]] = 2
        /\ last = Outcome("finalize_recovery", "Ok", 0, id)

\* C2: every account has at most one recovery that was initiated and has not
\* been the target of a successful finalize.
C2_OneOpenRecovery ==
    \A account \in DOMAIN grp_init :
        Cardinality({id \in DOMAIN grp_rec_account :
                        grp_rec_account[id] = account /\ id \notin finalized}) <= 1

\* C4: approval_count of every recovery is the number of callers holding an
\* approver marker of it.
C4_CountIsApprovers ==
    \A id \in DOMAIN grp_rec_approval_count :
        grp_rec_approval_count[id] = Cardinality(Approvers(id))

\* C7: approved of every recovery is true exactly when its approval_count has
\* reached the threshold of its account.
C7_ApprovedIffThreshold ==
    \A id \in DOMAIN grp_rec_approved :
        grp_rec_approved[id] <=>
            (grp_rec_approval_count[id] >= grp_threshold[grp_rec_account[id]])

\* C3: once approve of a recovery by a caller has succeeded, every later approve
\* of that recovery by that caller fails with AlreadyApproved and leaves
\* approval_count, approved and the approver markers (the whole store) as they were.
C3_DoubleVoteRejected ==
    [][\A caller \in Accounts, id \in Ids :
          (<<id, caller>> \in voted /\ action_approve_recovery(caller, id))
              => (last'.err = "AlreadyApproved" /\ UNCHANGED store)]_vars

\* A guardian that had approved a recovery approved it again and was refused,
\* after another guardian had approved in between
C3_Witness ==
    \E id \in DOMAIN grp_rec_account :
        /\ last = Outcome("approve_recovery", "AlreadyApproved", 0, id)
        /\ Cardinality({p \in voted : p[1] = id}) = 2

\* C5: approve by a caller outside the guardian list of the recovery's account
\* fails with NotGuardian and changes nothing, and every approver marker
\* belongs to a guardian of the recovery's account.
C5_OnlyGuardiansVote ==
    /\ [](\A p \in grp_rec_approver :
             p[2] \in Range(grp_guardians[grp_rec_account[p[1]]]))
    /\ [][\A caller \in Accounts, id \in Ids :
             (/\ id \in DOMAIN grp_rec_account
              /\ caller \notin Range(grp_guardians[grp_rec_account[id]])
              /\ action_approve_recovery(caller, id))
                 => (last'.err = "NotGuardian" /\ UNCHANGED store)]_vars

\* An approve was refused with NotGuardian on a recovery whose account has two
\* distinct guardians, one of which has approved
C5_Witness ==
    \E id \in DOMAIN grp_rec_account :
        /\ last = Outcome("approve_recovery", "NotGuardian", 0, id)
        /\ Cardinality(Range(grp_guardians[grp_rec_account[id]])) = 2
        /\ Approvers(id) # {}

\* C6: a recovery whose approved flag is true keeps it true in every later state.
C6_ApprovedIsOneWay ==
    [][\A id \in DOMAIN grp_rec_approved :
          grp_rec_approved[id]
              => (id \in DOMAIN grp_rec_approved' /\ grp_rec_approved'[id])]_vars

\* An approved recovery got one more approval past its threshold, was finalized,
\* and a later recovery was initiated
C6_Witness ==
    \E id \in finalized :
        /\ grp_rec_approved[id]
        /\ grp_rec_approval_count[id] > grp_threshold[grp_rec_account[id]]
        /\ grp_counter > id

\* C8, as stated: after register has succeeded for an account, every later
\* register for it fails with AlreadyInitialized and leaves the store as it was.
C8_AlwaysAlreadyInitialized ==
    [][\A caller \in Accounts, account \in Owners, guardians \in GuardianLists,
          threshold \in Thresholds :
          (Registered(account)
           /\ action_initialize_guardians(caller, account, guardians, threshold))
              => (last'.err = "AlreadyInitialized" /\ UNCHANGED store)]_vars

\* The error of a register call on an account that is already registered
RegisterAgainError(caller, account, guardians, threshold) ==
    IF caller # account THEN "NotAccountOwner"
    ELSE IF Len(guardians) < 2 THEN "InvalidGuardianSet"
    ELSE IF threshold < 1 \/ threshold > Len(guardians) THEN "InvalidThreshold"
    ELSE "AlreadyInitialized"

\* C8, amended: after register has succeeded for an account, every later register
\* for it fails and leaves the store as it was; the error is AlreadyInitialized
\* when the caller is the account, the list has at least 2 entries and the
\* threshold is in range, and otherwise the error of the first of these checks
\* that fails (NotAccountOwner, InvalidGuardianSet, InvalidThreshold).
C8_RegisterIsWriteOnce ==
    [][\A caller \in Accounts, account \in Owners, guardians \in GuardianLists,
          threshold \in Thresholds :
          (Registered(account)
           /\ action_initialize_guardians(caller, account, guardians, threshold))
              => (/\ last'.err = RegisterAgainError(caller, account, guardians, threshold)
                  /\ UNCHANGED store)]_vars

\* A register call on a registered account was refused with AlreadyInitialized
C8_Witness ==
    \E account \in DOMAIN grp_init :
        /\ Registered(account)
        /\ last = Outcome("initialize_guardians", "AlreadyInitialized", account, 0)

\* C9: once an account is registered, its guardians list and threshold never
\* change and its init flag stays true.
C9_GuardianSetImmutable ==
    [][\A account \in DOMAIN grp_init :
          Registered(account)
              => (/\ account \in DOMAIN grp_init' /\ grp_init'[account]
                  /\ account \in DOMAIN grp_guardians'
                  /\ grp_guardians'[account] = grp_guardians[account]
                  /\ account \in DOMAIN grp_threshold'
                  /\ grp_threshold'[account] = grp_threshold[account])]_vars

\* A registered account has been through a refused register, and a recovery of
\* it has been approved and finalized
C9_Witness ==
    \E account \in DOMAIN grp_init :
        /\ Registered(account)
        /\ last = Outcome("initialize_guardians", "AlreadyInitialized", account, 0)
        /\ \E id \in finalized : grp_rec_account[id] = account

\* C10: every stored guardians list has unique members (register refuses a list
\* that names an account more than once).
C10_GuardiansUnique ==
    \A account \in DOMAIN grp_guardians :
        Cardinality(Range(grp_guardians[account])) = Len(grp_guardians[account])

\* C11: every registered account has a stored list of at least 2 guardians and a
\* threshold from 1 to the length of the list, and only the account itself can
\* register it: register by another caller fails with NotAccountOwner, the
\* owner's register with fewer than 2 guardians fails with InvalidGuardianSet,
\* and the owner's register of 2 or more guardians with a threshold outside
\* [1, |guardians|] fails with InvalidThreshold.
C11_RegisteredIsValid ==
    /\ [](\A account \in DOMAIN grp_init :
             Registered(account)
                 => /\ account \in DOMAIN grp_guardians
                    /\ Len(grp_guardians[account]) >= 2
                    /\ account \in DOMAIN grp_threshold
                    /\ grp_threshold[account] >= 1
                    /\ grp_threshold[account] <= Len(grp_guardians[account]))
    /\ [][\A caller \in Accounts, account \in Owners, guardians \in GuardianLists,
             threshold \in Thresholds :
             action_initialize_guardians(caller, account, guardians, threshold)
                 => /\ caller # account => last'.err = "NotAccountOwner"
                    /\ (caller = account /\ Len(guardians) < 2)
                          => last'.err = "InvalidGuardianSet"
                    /\ (/\ caller = account
                        /\ Len(guardians) >= 2
                        /\ (threshold < 1 \/ threshold > Len(guardians)))
                          => last'.err = "InvalidThreshold"
                    /\ (Registered(account)' /\ ~Registered(account))
                          => caller = account]_vars

\* An account is registered with a threshold equal to the length of its list,
\* and a later register of it was refused for its threshold
C11_Witness ==
    \E account \in DOMAIN grp_init :
        /\ Registered(account)
        /\ grp_threshold[account] = Len(grp_guardians[account])
        /\ last = Outcome("initialize_guardians", "InvalidThreshold", account, 0)

\* C12: a call that ends in an error leaves the whole store (guardian lists,
\* thresholds, init flags, recovery records, approver markers, active markers
\* and the counter) as it was before the call.
C12_ErrorChangesNothing ==
    [][last'.err # "Ok" => UNCHANGED store]_vars

\* A finalize was refused with ThresholdNotMet while the recovery has an
\* approval and its account's active marker is still in place
C12_Witness ==
    \E id \in DOMAIN grp_rec_account :
        /\ last = Outcome("finalize_recovery", "ThresholdNotMet", 0, id)
        /\ grp_rec_approval_count[id] = 1
        /\ Has(grp_active, grp_rec_account[id])
        /\ grp_active[grp_rec_account[id]] = id

\* C13: initiate on an account that is not registered fails with NotInitialized;
\* initiate while the account's active marker is present fails with
\* RecoveryExists; a successful finalize leaves the account of its recovery
\* without a marker, and initiate on a registered account without a marker
\* succeeds, sets the marker to the id it returns, and that id differs from the
\* id of every recovery created before.
C13_InitiateGate ==
    /\ [][\A account \in Owners, new_key \in PublicKeys :
             action_initiate_recovery(account, new_key)
                 => /\ ~Registered(account)
                          => (last'.err = "NotInitialized" /\ UNCHANGED store)
                    /\ (Registered(account) /\ Has(grp_active, account))
                          => (last'.err = "RecoveryExists" /\ UNCHANGED store)
                    /\ (Registered(account) /\ ~Has(grp_active, account))
                          => /\ last'.err = "Ok"
                             /\ last'.id \notin DOMAIN grp_rec_account
                             /\ last'.id \in DOMAIN grp_rec_account'
                             /\ grp_rec_account'[last'.id] = account
                             /\ Has(grp_active', account)
                             /\ grp_active'[account] = last'.id]_vars
    /\ [][\A id \in Ids :
             (action_finalize_recovery(id) /\ last'.err = "Ok")
                 => ~Has(grp_active', grp_rec_account[id])]_vars

\* After a recovery of the account was finalized, initiate succeeded again with
\* a new id and set the marker to it
C13_Witness ==
    \E account \in DOMAIN grp_active :
        /\ last = Outcome("initiate_recovery", "Ok", account, grp_active[account])
        /\ \E id \in finalized :
              grp_rec_account[id] = account /\ id # grp_active[account]

\* C14: the counter never decreases; a successful initiate returns the counter
\* plus one, an id greater than the id of every recovery created before (the
\* first being 1), and stores it as the counter; a failed initiate leaves the
\* counter as it was; the recoveries created are exactly those of ids 1 to the
\* counter.
C14_IdsIncrease ==
    /\ [](DOMAIN grp_rec_account = 1..grp_counter)
    /\ [][grp_counter' >= grp_counter]_vars
    /\ [][\A account \in Owners, new_key \in PublicKeys :
             action_initiate_recovery(account, new_key)
                 => IF last'.err = "Ok"
                    THEN /\ last'.id = grp_counter + 1
                         /\ grp_counter' = last'.id
                         /\ \A id \in DOMAIN grp_rec_account : last'.id > id
                    ELSE grp_counter' = grp_counter]_vars

\* The third recovery has just been created, with id 3
C14_Witness ==
    /\ grp_counter = 3
    /\ DOMAIN grp_rec_account = {1, 2, 3}
    /\ last = Outcome("initiate_recovery", "Ok", 1, 3)

\* C17: once finalize of a recovery has succeeded, no later call changes its
\* approval_count or its approver markers, and a later finalize of it leaves
\* every active marker as it was.
C17_FinalizeIsTerminal ==
    [][\A id \in finalized :
          /\ grp_rec_approval_count'[id] = grp_rec_approval_count[id]
          /\ Approvers(id)' = Approvers(id)
          /\ action_finalize_recovery(id) => grp_active' = grp_active]_vars

\* C18: in every reachable state, a recovery that every member of the stored
\* guardians list of its account has approved is approved (so finalize of it
\* succeeds and clears the account's marker).
C18_AllApprovedIsApproved ==
    \A id \in DOMAIN grp_rec_account :
        (\A g \in Range(grp_guardians[grp_rec_account[id]]) : <<id, g>> \in voted)
            => grp_rec_approved[id]

\* f on the keys in S
Restrict(f, S) == [x \in (DOMAIN f) \cap S |-> f[x]]

\* The ids of the recoveries of an account
IdsOf(account) == {id \in DOMAIN grp_rec_account : grp_rec_account[id] = account}

\* Everything the store holds for an account: its init flag, guardians list,
\* threshold and active marker, and the records and approver markers of its
\* recoveries
AccountView(account) ==
    <<Restrict(grp_init, {account}), Restrict(grp_guardians, {account}),
      Restrict(grp_threshold, {account}), Restrict(grp_active, {account}),
      IdsOf(account), Restrict(grp_rec_new_key, IdsOf(account)),
      Restrict(grp_rec_approval_count, IdsOf(account)),
      Restrict(grp_rec_approved, IdsOf(account)),
      {p \in grp_rec_approver : p[1] \in IdsOf(account)}>>

\* The step is a call that names an account other than B, or a recovery of one
TargetsOther(B) ==
    \/ \E caller \in Accounts, A \in OwnersTwo \ {B}, guardians \in ListsTwo,
          threshold \in ThresholdsTwo :
          action_initialize_guardians(caller, A, guardians, threshold)
    \/ \E A \in OwnersTwo \ {B}, new_key \in KeysTwo :
          action_initiate_recovery(A, new_key)
    \/ \E caller \in Accounts, id \in DOMAIN grp_rec_account :
          grp_rec_account[id] # B /\ action_approve_recovery(caller, id)
    \/ \E id \in DOMAIN grp_rec_account :
          grp_rec_account[id] # B /\ action_finalize_recovery(id)

\* C15: a register or initiate naming account A, or an approve or finalize of a
\* recovery of A, succeeding or failing, leaves everything the store holds for
\* any other account B as it was; and initiate for a registered B without an
\* active marker succeeds whatever recovery A has open.
C15_AccountsIndependent ==
    [][\A B \in OwnersTwo :
          /\ AccountView(B)' = AccountView(B) \/ ~TargetsOther(B)
          /\ \A new_key \in KeysTwo :
                (/\ Registered(B)
                 /\ ~Has(grp_active, B)
                 /\ action_initiate_recovery(B, new_key))
                    => last'.err = "Ok"]_vars

\* While account 1 has a recovery open, a recovery of account 2 was approved
\* and finalized, and account 1's marker is still in place
C15_Witness ==
    /\ Has(grp_active, 1)
    /\ grp_rec_account[grp_active[1]] = 1
    /\ grp_active[1] \notin finalized
    /\ \E id \in finalized : grp_rec_account[id] = 2 /\ id > grp_active[1]
    /\ last.op = "finalize_recovery" /\ last.err = "Ok"

\* C19: the account and the new key of a recovery are the ones named in the
\* initiate call that created it, and no later call changes them.
C19_SubjectIsFixed ==
    /\ [][\A id \in DOMAIN grp_rec_account :
             /\ id \in DOMAIN grp_rec_account'
             /\ grp_rec_account'[id] = grp_rec_account[id]
             /\ id \in DOMAIN grp_rec_new_key
             /\ id \in DOMAIN grp_rec_new_key'
             /\ grp_rec_new_key'[id] = grp_rec_new_key[id]]_vars
    /\ [][\A account \in OwnersTwo, new_key \in KeysTwo :
             (action_initiate_recovery(account, new_key) /\ last'.err = "Ok")
                 => /\ last'.id \in DOMAIN grp_rec_account'
                    /\ grp_rec_account'[last'.id] = account
                    /\ last'.id \in DOMAIN grp_rec_new_key'
                    /\ grp_rec_new_key'[last'.id] = new_key]_vars

\* A recovery naming key 2 is approved and finalized, and a later recovery of
\* the same account names key 1
C19_Witness ==
    \E id \in finalized, later \in DOMAIN grp_rec_account :
        /\ grp_rec_approved[id]
        /\ grp_rec_new_key[id] = 2
        /\ later > id
        /\ grp_rec_account[later] = grp_rec_account[id]
        /\ grp_rec_new_key[later] = 1

\* The approval fields of the store
ApprovalFields ==
    [approver |-> grp_rec_approver, approval_count |-> grp_rec_approval_count,
     approved |-> grp_rec_approved]

\* approve_recovery_on gives exactly the approval fields a step of
\* action_approve_recovery leaves
ApproveAgrees ==
    [][\A caller \in Accounts, id \in Ids :
          action_approve_recovery(caller, id)
              => ApprovalFields' \in approve_recovery_on(ApprovalFields, caller, id)]_vars

\* The approval fields after approve of id by first and then by second
ApproveInOrder(id, first, second) ==
    UNION {approve_recovery_on(st, second, id) :
              st \in approve_recovery_on(ApprovalFields, first, id)}

\* The n smallest members of a set of numbers
RECURSIVE Smallest(_, _)
Smallest(S, n) ==
    IF n = 0 \/ S = {} THEN {}
    ELSE LET m == CHOOSE i \in S : \A j \in S : i <= j
         IN  {m} \cup Smallest(S \ {m}, n - 1)

\* The first OrderGuardians guardians, in list order, that have not approved id
FirstWaiting(id) ==
    LET guardians == grp_guardians[grp_rec_account[id]]
        waiting == {i \in DOMAIN guardians : <<id, guardians[i]>> \notin grp_rec_approver}
    IN  {guardians[i] : i \in Smallest(waiting, OrderGuardians)}

\* C16: for every recovery and every two distinct guardians that have not
\* approved it, approve by the one and then by the other leaves the same
\* approval_count, approved and approver markers as the other order.
C16_OrderIrrelevant ==
    \A id \in DOMAIN grp_rec_account :
        \A g1 \in FirstWaiting(id), g2 \in FirstWaiting(id) :
            g1 # g2 => ApproveInOrder(id, g1, g2) = ApproveInOrder(id, g2, g1)

\* The most recent key-rotation call returned without reverting
RotationDone == rotation.err = "Ok"

\* C20: whenever the key-rotation call finishes without reverting, the new key
\* is an associated key with the requested weight, the key-management and
\* deployment thresholds equal the requested values, and the old key is no
\* longer an associated key; whenever adding the key or setting a threshold
\* fails, the call reverts and the keys and thresholds are unchanged.
C20_CompleteRotation ==
    /\ [](RotationDone =>
            /\ Has(associated_keys, rotation.new_key.hash)
            /\ associated_keys[rotation.new_key.hash] = rotation.new_key_weight
            /\ action_thresholds.key_management = rotation.key_management_threshold
            /\ action_thresholds.deployment = rotation.deployment_threshold
            /\ ~Has(associated_keys, rotation.old_key.hash))
    /\ [][rotation'.err \in {"AddKeyFailed", "UpdateThresholdsFailed"}
            => UNCHANGED <<associated_keys, action_thresholds>>]_vars
====
